---- MODULE Spec2Model ----
(***************************************************************************)
(* A model of the certificate-transparency chain validator (CertChecker,   *)
(* cpp/log/cert_checker.cc) and of the log database interface              *)
(* (cpp/log/database.h).                                                   *)
(*                                                                         *)
(* The Cert / CertChain / PreCertChain / TbsCertificate classes            *)
(* (log/cert.h) are consumed by the validator as a capability set; they    *)
(* are modelled here by operators over certificate records.                *)
(***************************************************************************)
EXTENDS Integers, Sequences, FiniteSets, TLC

\* ------------------------------------------------------------------ bounds
MaxChain == 3        \* longest submitted chain
MaxTrusted == 2      \* most entries the trust store holds
MaxSrc == 2          \* most PEM blocks in one trust source
MaxSeq == 1          \* largest sequence number passed to the database
MaxTime == 2         \* largest tree head timestamp

\* ------------------------------------------------------- certificate values
\* A certificate is known by its bytes, here a name; Cert(c) is the record
\* of the fields of certificate c that the validator can observe.
\*   subj    subject distinguished name        iss   issuer distinguished name
\*   key     its own public key (SPKI)         signer  the key that signed it
\*   ca      basicConstraints CA:true          eku   precertificate-signing EKU
\*   poison  critical CT poison extension      alg   signature algorithm
\*   fault   the capability call that fails with ERROR on this certificate
MkCert(subj, iss, key, signer, ca, eku, poison, alg, fault) ==
  [subj |-> subj, iss |-> iss, key |-> key, signer |-> signer,
   ca |-> ca, eku |-> eku, poison |-> poison, alg |-> alg, fault |-> fault]

Cert(c) ==
  CASE c = "R1" -> \* a root named R
         MkCert("R", "R", "k1", "k1", TRUE, FALSE, FALSE, "sha256", "none")
    [] c = "R2" -> \* the same name and key in other bytes
         MkCert("R", "R", "k1", "k1", TRUE, FALSE, FALSE, "sha256", "none")
    [] c = "R3" -> \* the same name with another key
         MkCert("R", "R", "k3", "k3", TRUE, FALSE, FALSE, "sha256", "none")
    [] c = "RU" -> \* the same name, with a key of an algorithm not supported
         MkCert("R", "R", "kU", "kU", TRUE, FALSE, FALSE, "sha256", "keyalg")
    [] c = "PS" -> \* a Precertificate Signing Certificate issued by R
         MkCert("S", "R", "kS", "k1", TRUE, TRUE, FALSE, "sha256", "none")
    [] c = "LW" -> \* a leaf issued by R, signed with a rejected algorithm
         MkCert("L", "R", "kL", "k1", FALSE, FALSE, FALSE, "md2", "none")
    [] c = "PR" -> \* a pre-certificate issued by R
         MkCert("L", "R", "kL", "k1", FALSE, FALSE, TRUE, "sha256", "none")
    [] c = "PP" -> \* a pre-certificate issued by PS
         MkCert("L", "S", "kL", "kS", FALSE, FALSE, TRUE, "sha256", "none")
    [] c = "PD" -> \* a pre-certificate issued by R whose TBS fails to encode
         MkCert("L", "R", "kL", "k1", FALSE, FALSE, TRUE, "sha256", "der")
    [] c = "FX" -> \* a leaf whose extensions cannot be read
         MkCert("L", "R", "kL", "k1", FALSE, FALSE, TRUE, "sha256", "ext")
    [] c = "FN" -> \* a root whose subject name fails to encode
         MkCert("R", "R", "k1", "k1", TRUE, FALSE, FALSE, "sha256", "name")
    [] c = "FM" -> \* a root without an encodable subject name
         MkCert("R", "R", "k1", "k1", TRUE, FALSE, FALSE, "sha256", "noname")

\* Certificates a submitted chain is built from.
ChainCerts == {"PS", "LW", "PR", "PP", "PD", "R1", "FX"}
\* Certificates a trust source may hold.
SourceCerts == {"R1", "R2", "R3", "RU", "PS", "FN", "FM"}

\* ------------------------------------------------------------- Cert (cert.h)
\* Cert::Status
Cert_TRUE == "TRUE"
Cert_FALSE == "FALSE"
Cert_ERROR == "ERROR"
Cert_UNSUPPORTED_ALGORITHM == "UNSUPPORTED_ALGORITHM"

B2S(b) == IF b THEN Cert_TRUE ELSE Cert_FALSE

\* Cert::DerEncodedSubjectName: the status and the encoded name.
DerEncodedSubjectName(c) ==
  CASE Cert(c).fault = "name" -> [st |-> Cert_ERROR, name |-> <<>>]
    [] Cert(c).fault = "noname" -> [st |-> Cert_FALSE, name |-> <<>>]
    [] OTHER -> [st |-> Cert_TRUE, name |-> <<"DN", Cert(c).subj>>]

\* Cert::DerEncodedIssuerName
DerEncodedIssuerName(c) ==
  CASE Cert(c).fault = "iname" -> [st |-> Cert_ERROR, name |-> <<>>]
    [] OTHER -> [st |-> Cert_TRUE, name |-> <<"DN", Cert(c).iss>>]

\* Cert::IsIdenticalTo: byte-for-byte comparison.
IsIdenticalTo(a, b) == a = b

\* Cert::HasCriticalExtension(NID_ctPoison)
HasCriticalExtension(c) ==
  IF Cert(c).fault = "ext" THEN Cert_ERROR ELSE B2S(Cert(c).poison)

\* Cert::HasExtendedKeyUsage(NID_ctPrecertificateSigning)
HasExtendedKeyUsage(c) ==
  IF Cert(c).fault = "eku" THEN Cert_ERROR ELSE B2S(Cert(c).eku)

\* Cert::HasBasicConstraintCATrue
HasBasicConstraintCATrue(c) == B2S(Cert(c).ca)

\* Cert::IsIssuedBy: the issuer name of the subject is the issuer's name.
IsIssuedBy(s, i) == B2S(Cert(s).iss = Cert(i).subj)

\* Cert::IsSelfSigned: the certificate names itself as issuer.
IsSelfSigned(c) ==
  IF Cert(c).fault = "self" THEN Cert_ERROR ELSE B2S(Cert(c).iss = Cert(c).subj)

\* Cert::IsSignedBy: signature check of s against the key of i.
IsSignedBy(s, i) ==
  CASE Cert(i).fault = "key" -> Cert_ERROR
    [] Cert(s).alg = "md2" \/ Cert(i).fault = "keyalg" -> Cert_UNSUPPORTED_ALGORITHM
    [] OTHER -> B2S(Cert(s).signer = Cert(i).key)

\* Cert::SPKISha256Digest
SPKISha256Digest(c) ==
  IF Cert(c).fault = "spki" THEN [st |-> Cert_ERROR, hash |-> <<>>]
  ELSE [st |-> Cert_TRUE, hash |-> <<"SHA256", <<"SPKI", Cert(c).key>>>>]

\* Cert::Clone
Clone(c) == c

\* -------------------------------------------------------- CertChain (cert.h)
\* A chain object: not yet constructed, a null pointer, constructed from
\* input that did not load, or a loaded sequence of certificates, leaf first.
NoChain == [kind |-> "none", certs |-> <<>>]
NullChain == [kind |-> "null", certs |-> <<>>]
UnloadedChain == [kind |-> "unloaded", certs |-> <<>>]
LoadedChain(cs) == [kind |-> "loaded", certs |-> cs]

\* CertChain::IsLoaded
Chain_IsLoaded(ch) == ch.kind = "loaded" /\ ch.certs # <<>>

\* CertChain::Length, CertAt (0-based), LeafCert, LastCert
Length(ch) == Len(ch.certs)
CertAt(ch, i) == ch.certs[i + 1]
LeafCert(ch) == ch.certs[1]
LastCert(ch) == ch.certs[Len(ch.certs)]

\* CertChain::AddCert: appends; the status is TRUE for a loaded certificate.
AddCert(ch, c) == [st |-> Cert_TRUE, chain |-> LoadedChain(Append(ch.certs, c))]

\* The scan of RemoveCertsAfterFirstSelfSigned: the status and the index of
\* the first self-signed certificate at or after i (Len + 1 when there is none).
RECURSIVE FirstSelfSigned(_, _)
FirstSelfSigned(cs, i) ==
  IF i > Len(cs) THEN [st |-> Cert_TRUE, at |-> i]
  ELSE LET s == IsSelfSigned(cs[i]) IN
       CASE s = Cert_TRUE -> [st |-> Cert_TRUE, at |-> i]
         [] s = Cert_FALSE -> FirstSelfSigned(cs, i + 1)
         [] OTHER -> [st |-> Cert_ERROR, at |-> i]

\* CertChain::RemoveCertsAfterFirstSelfSigned: the status and the chain left.
RemoveCertsAfterFirstSelfSigned(ch) ==
  LET f == FirstSelfSigned(ch.certs, 1) IN
  IF f.st # Cert_TRUE THEN [st |-> Cert_ERROR, chain |-> ch]
  ELSE IF f.at > Len(ch.certs) THEN [st |-> Cert_TRUE, chain |-> ch]
  ELSE [st |-> Cert_TRUE, chain |-> LoadedChain(SubSeq(ch.certs, 1, f.at))]

\* One adjacent pair of IsValidCaIssuerChainMaybeLegacyRoot: the issuer is a
\* CA (a self-signed issuer is excused) and the subject names it as issuer.
CaIssuerPair(s, i) ==
  LET self == IsSelfSigned(i) IN
  CASE self = Cert_ERROR -> Cert_ERROR
    [] self = Cert_FALSE /\ HasBasicConstraintCATrue(i) # Cert_TRUE ->
         HasBasicConstraintCATrue(i)
    [] OTHER -> IsIssuedBy(s, i)

\* CertChain::IsValidCaIssuerChainMaybeLegacyRoot: the first non-TRUE verdict
\* over the adjacent pairs from i on.
RECURSIVE CaIssuerScan(_, _)
CaIssuerScan(cs, i) ==
  IF i + 1 > Len(cs) THEN Cert_TRUE
  ELSE LET v == CaIssuerPair(cs[i], cs[i + 1]) IN
       IF v # Cert_TRUE THEN v ELSE CaIssuerScan(cs, i + 1)

IsValidCaIssuerChainMaybeLegacyRoot(ch) == CaIssuerScan(ch.certs, 1)

\* CertChain::IsValidSignatureChain: the first non-TRUE signature verdict
\* over the adjacent pairs from i on.
RECURSIVE SignatureScan(_, _)
SignatureScan(cs, i) ==
  IF i + 1 > Len(cs) THEN Cert_TRUE
  ELSE LET v == IsSignedBy(cs[i], cs[i + 1]) IN
       IF v # Cert_TRUE THEN v ELSE SignatureScan(cs, i + 1)

IsValidSignatureChain(ch) == SignatureScan(ch.certs, 1)

\* ------------------------------------------------------ PreCertChain (cert.h)
\* PreCertChain::PreCert, PrecertIssuingCert
PreCert(ch) == ch.certs[1]
HasPrecertIssuingCert(ch) == Len(ch.certs) > 1
PrecertIssuingCert(ch) == ch.certs[2]

\* PreCertChain::IsWellFormed: the leaf carries the critical poison extension.
IsWellFormed(ch) == HasCriticalExtension(PreCert(ch))

\* PreCertChain::UsesPrecertSigningCertificate
UsesPrecertSigningCertificate(ch) ==
  IF ~HasPrecertIssuingCert(ch) THEN Cert_FALSE
  ELSE HasExtendedKeyUsage(PrecertIssuingCert(ch))

\* ---------------------------------------------------- TbsCertificate (cert.h)
\* TbsCertificate(const Cert&): a detached copy of the to-be-signed part.
TbsCertificate(c) ==
  [loaded |-> TRUE, of |-> c, subject |-> Cert(c).subj, issuer |-> Cert(c).iss,
   key |-> Cert(c).key, poison |-> Cert(c).poison]

\* TbsCertificate::DeleteExtension(NID_ctPoison): the status and the result.
DeleteExtension(tbs) ==
  IF tbs.poison THEN [st |-> Cert_TRUE, tbs |-> [tbs EXCEPT !.poison = FALSE]]
  ELSE [st |-> Cert_FALSE, tbs |-> tbs]

\* TbsCertificate::CopyIssuerFrom: takes the issuer field of `from`.
CopyIssuerFrom(tbs, from) ==
  [st |-> Cert_TRUE, tbs |-> [tbs EXCEPT !.issuer = Cert(from).iss]]

\* TbsCertificate::DerEncoding
DerEncoding(tbs) ==
  IF Cert(tbs.of).fault = "der" THEN [st |-> Cert_ERROR, der |-> <<>>]
  ELSE [st |-> Cert_TRUE, der |-> <<"DER", tbs>>]

\* ------------------------------------------------- CertChecker (cert_checker.cc)
\* util::Status: an error code and its message.
Status(code, msg) == [code |-> code, msg |-> msg]
Status_OK == Status("OK", "")
StatusCodes == {"OK", "INVALID_ARGUMENT", "FAILED_PRECONDITION", "INTERNAL"}

\* CertChecker::CertVerifyResult
CertVerifyResults ==
  {"OK", "INVALID_CERTIFICATE_CHAIN", "PRECERT_EXTENSION_IN_CERT_CHAIN",
   "UNSUPPORTED_ALGORITHM_IN_CERT_CHAIN", "PRECERT_CHAIN_NOT_WELL_FORMED",
   "ROOT_NOT_IN_LOCAL_STORE", "INTERNAL_ERROR"}

\* A mapping that reports an unknown root as an invalid argument.
GetVerifyErrorRootInvalid(result) ==
  CASE result \in {"INVALID_CERTIFICATE_CHAIN", "PRECERT_EXTENSION_IN_CERT_CHAIN",
                   "UNSUPPORTED_ALGORITHM_IN_CERT_CHAIN"} ->
         Status("INVALID_ARGUMENT", "invalid certificate chain")
    [] result = "PRECERT_CHAIN_NOT_WELL_FORMED" ->
         Status("INVALID_ARGUMENT", "prechain not well formed")
    [] result = "ROOT_NOT_IN_LOCAL_STORE" ->
         Status("INVALID_ARGUMENT", "unknown root")
    [] result = "INTERNAL_ERROR" -> Status("INTERNAL", "internal error")
    [] result = "OK" -> Status_OK

\* GetVerifyError
GetVerifyError(result) ==
  CASE result \in {"INVALID_CERTIFICATE_CHAIN", "PRECERT_EXTENSION_IN_CERT_CHAIN",
                   "UNSUPPORTED_ALGORITHM_IN_CERT_CHAIN"} ->
         Status("INVALID_ARGUMENT", "invalid certificate chain")
    [] result = "PRECERT_CHAIN_NOT_WELL_FORMED" ->
         Status("INVALID_ARGUMENT", "prechain not well formed")
    [] result = "ROOT_NOT_IN_LOCAL_STORE" ->
         Status("FAILED_PRECONDITION", "unknown root")
    [] result = "INTERNAL_ERROR" -> Status("INTERNAL", "internal error")
    [] result = "OK" -> Status_OK

\* trusted_.equal_range(name): the entries under one subject name, in the
\* order the multimap keeps equal keys (insertion order).  The store is the
\* sequence of its (name, certificate) pairs in insertion order.
EqualRange(store, name) == SelectSeq(store, LAMBDA e : e.name = name)

\* The loop of CertChecker::IsTrusted over the candidate range.
RECURSIVE AnyIdentical(_, _, _)
AnyIdentical(cert, cands, i) ==
  IF i > Len(cands) THEN FALSE
  ELSE IF IsIdenticalTo(cert, cands[i].cert) THEN TRUE
  ELSE AnyIdentical(cert, cands, i + 1)

\* A lookup that trusts any certificate whose subject name has a store entry.
IsTrustedByName(store, cert) ==
  LET n == DerEncodedSubjectName(cert) IN
  CASE n.st = Cert_ERROR -> [res |-> "INTERNAL_ERROR", name |-> <<>>]
    [] n.st # Cert_TRUE -> [res |-> "INVALID_CERTIFICATE_CHAIN", name |-> <<>>]
    [] OTHER ->
         [res |-> IF EqualRange(store, n.name) # <<>>
                  THEN "OK" ELSE "ROOT_NOT_IN_LOCAL_STORE",
          name |-> n.name]

\* CertChecker::IsTrusted: the verdict and *subject_name.
IsTrusted(store, cert) ==
  LET n == DerEncodedSubjectName(cert) IN
  CASE n.st = Cert_ERROR -> [res |-> "INTERNAL_ERROR", name |-> <<>>]
    [] n.st # Cert_TRUE -> [res |-> "INVALID_CERTIFICATE_CHAIN", name |-> <<>>]
    [] OTHER ->
         [res |-> IF AnyIdentical(cert, EqualRange(store, n.name), 1)
                  THEN "OK" ELSE "ROOT_NOT_IN_LOCAL_STORE",
          name |-> n.name]

\* A candidate loop that passes over a candidate of an unsupported algorithm
\* and tries the remaining ones.
RECURSIVE CandidateScanTryingOn(_, _, _, _)
CandidateScanTryingOn(subject, cands, i, seen) ==
  IF i > Len(cands) THEN [end |-> "NONE", at |-> i, verdicts |-> seen]
  ELSE LET ok == IsSignedBy(subject, cands[i].cert)
           now == Append(seen, ok) IN
       CASE ok = Cert_UNSUPPORTED_ALGORITHM ->
              CandidateScanTryingOn(subject, cands, i + 1, now)
         [] ok # Cert_TRUE /\ ok # Cert_FALSE ->
              [end |-> "ERROR", at |-> i, verdicts |-> now]
         [] ok = Cert_TRUE -> [end |-> "FOUND", at |-> i, verdicts |-> now]
         [] OTHER -> CandidateScanTryingOn(subject, cands, i + 1, now)

\* The candidate loop of CertChecker::GetTrustedCa: the signature verdicts it
\* evaluated, in order, and how the loop ended ("FOUND" at candidate `at`,
\* "UNSUPPORTED", "ERROR", or "NONE" when the range is exhausted).
RECURSIVE CandidateScan(_, _, _, _)
CandidateScan(subject, cands, i, seen) ==
  IF i > Len(cands) THEN [end |-> "NONE", at |-> i, verdicts |-> seen]
  ELSE LET ok == IsSignedBy(subject, cands[i].cert)
           now == Append(seen, ok) IN
       CASE ok = Cert_UNSUPPORTED_ALGORITHM ->
              [end |-> "UNSUPPORTED", at |-> i, verdicts |-> now]
         [] ok # Cert_TRUE /\ ok # Cert_FALSE ->
              [end |-> "ERROR", at |-> i, verdicts |-> now]
         [] ok = Cert_TRUE -> [end |-> "FOUND", at |-> i, verdicts |-> now]
         [] OTHER -> CandidateScan(subject, cands, i + 1, now)

\* The value GetTrustedCa returns: the verdict, the chain as it leaves it,
\* and the verdicts of its candidate loop.
CaResult(res, ch, verdicts) == [res |-> res, chain |-> ch, verdicts |-> verdicts]

\* A last step that reports OK without having added the issuer found.
AddedRootLeftOut(ch, added, verdicts) == CaResult("OK", ch, verdicts)

\* CertChecker::GetTrustedCa, its last lines: the clone of the issuer found is
\* added to the chain.
AddedRoot(ch, added, verdicts) ==
  IF added.st # Cert_TRUE THEN CaResult("INTERNAL_ERROR", ch, verdicts)
  ELSE CaResult("OK", added.chain, verdicts)

\* A lookup that reports an unsupported algorithm as an internal error.
AfterCandidateScanUnsupportedInternal(ch, issuer_range, scan) ==
  CASE scan.end = "UNSUPPORTED" -> CaResult("INTERNAL_ERROR", ch, scan.verdicts)
    [] scan.end = "ERROR" -> CaResult("INTERNAL_ERROR", ch, scan.verdicts)
    [] scan.end = "NONE" -> CaResult("ROOT_NOT_IN_LOCAL_STORE", ch, scan.verdicts)
    [] OTHER -> AddedRoot(ch, AddCert(ch, Clone(issuer_range[scan.at].cert)),
                          scan.verdicts)

\* CertChecker::GetTrustedCa from the end of the candidate loop on.
AfterCandidateScan(ch, issuer_range, scan) ==
  CASE scan.end = "UNSUPPORTED" ->
         CaResult("UNSUPPORTED_ALGORITHM_IN_CERT_CHAIN", ch, scan.verdicts)
    [] scan.end = "ERROR" -> CaResult("INTERNAL_ERROR", ch, scan.verdicts)
    [] scan.end = "NONE" -> CaResult("ROOT_NOT_IN_LOCAL_STORE", ch, scan.verdicts)
    [] OTHER -> AddedRoot(ch, AddCert(ch, Clone(issuer_range[scan.at].cert)),
                          scan.verdicts)

\* CertChecker::GetTrustedCa from the IsTrusted call on.
TrustedCaLookup(store, ch, subject, is_trusted, issuer_name) ==
  CASE is_trusted.res # "ROOT_NOT_IN_LOCAL_STORE" ->
         CaResult(is_trusted.res, ch, <<>>)
    [] issuer_name.st = Cert_ERROR -> CaResult("INTERNAL_ERROR", ch, <<>>)
    [] issuer_name.st # Cert_TRUE -> CaResult("INVALID_CERTIFICATE_CHAIN", ch, <<>>)
    [] is_trusted.name = issuer_name.name ->
         CaResult("ROOT_NOT_IN_LOCAL_STORE", ch, <<>>)
    [] OTHER ->
         AfterCandidateScan(
           ch, EqualRange(store, issuer_name.name),
           CandidateScan(subject, EqualRange(store, issuer_name.name), 1, <<>>))

\* CertChecker::GetTrustedCa
GetTrustedCa(store, ch) ==
  IF ch.certs = <<>> THEN CaResult("INTERNAL_ERROR", ch, <<>>)
  ELSE IF store = <<>> THEN CaResult("ROOT_NOT_IN_LOCAL_STORE", ch, <<>>)
  ELSE TrustedCaLookup(store, ch, LastCert(ch), IsTrusted(store, LastCert(ch)),
                       DerEncodedIssuerName(LastCert(ch)))

\* What one validation call went through: the status each step produced
\* ("NOT_RUN" for a step the call did not reach) and the chain after trimming.
NoSteps ==
  [poison |-> "NOT_RUN", wellFormed |-> "NOT_RUN", trim |-> "NOT_RUN",
   caIssuer |-> "NOT_RUN", sig |-> "NOT_RUN", anchor |-> "NOT_RUN",
   verdicts |-> <<>>, usesPre |-> "NOT_RUN", trimmed |-> <<>>]

\* The value a validation call returns: the status, the chain as it leaves
\* it, and the steps taken.
CheckResult(st, ch, steps) == [status |-> st, chain |-> ch, steps |-> steps]

\* CertChecker::CheckIssuerChain, its last line: the trust anchor's verdict
\* as a status.
AnchorStep(ca_res, steps) ==
  CheckResult(GetVerifyError(ca_res.res), ca_res.chain,
              [steps EXCEPT !.anchor = ca_res.res, !.verdicts = ca_res.verdicts])

\* CertChecker::CheckIssuerChain from the signature check on.
SignatureStep(store, ch, status, steps) ==
  CASE status = Cert_UNSUPPORTED_ALGORITHM ->
         CheckResult(Status("INVALID_ARGUMENT",
                            "unsupported algorithm in certificate chain"),
                     ch, [steps EXCEPT !.sig = status])
    [] status = Cert_FALSE ->
         CheckResult(Status("INVALID_ARGUMENT", "invalid certificate chain"),
                     ch, [steps EXCEPT !.sig = status])
    [] status # Cert_TRUE ->
         CheckResult(Status("INTERNAL", "failed to check signature chain"),
                     ch, [steps EXCEPT !.sig = status])
    [] OTHER -> AnchorStep(GetTrustedCa(store, ch), [steps EXCEPT !.sig = status])

\* CertChecker::CheckIssuerChain from the CA-issuer check on.
CaIssuerStep(store, ch, status, steps) ==
  CASE status = Cert_FALSE ->
         CheckResult(Status("INVALID_ARGUMENT", "invalid certificate chain"),
                     ch, [steps EXCEPT !.caIssuer = status])
    [] status # Cert_TRUE ->
         CheckResult(Status("INTERNAL", "failed to check issuer chain"),
                     ch, [steps EXCEPT !.caIssuer = status])
    [] OTHER -> SignatureStep(store, ch, IsValidSignatureChain(ch),
                              [steps EXCEPT !.caIssuer = status])

\* CertChecker::CheckIssuerChain from the result of trimming on.
TrimStep(store, trim, steps) ==
  IF trim.st # Cert_TRUE
    THEN CheckResult(Status("INTERNAL", "failed to trim chain"), trim.chain,
                     [steps EXCEPT !.trim = trim.st])
  ELSE CaIssuerStep(store, trim.chain,
                    IsValidCaIssuerChainMaybeLegacyRoot(trim.chain),
                    [steps EXCEPT !.trim = trim.st, !.trimmed = trim.chain.certs])

\* CertChecker::CheckIssuerChain
CheckIssuerChain(store, ch, steps) ==
  TrimStep(store, RemoveCertsAfterFirstSelfSigned(ch), steps)

\* A poison test that answers a poisoned leaf with the generic message.
PoisonStepGenericMessage(store, ch, status) ==
  CASE status # Cert_TRUE /\ status # Cert_FALSE ->
         CheckResult(Status("INTERNAL", "internal error"), ch,
                     [NoSteps EXCEPT !.poison = status])
    [] status = Cert_TRUE ->
         CheckResult(Status("INVALID_ARGUMENT", "invalid certificate chain"), ch,
                     [NoSteps EXCEPT !.poison = status])
    [] OTHER -> CheckIssuerChain(store, ch, [NoSteps EXCEPT !.poison = status])

\* CertChecker::CheckCertChain from the poison-extension status on.
PoisonStep(store, ch, status) ==
  CASE status # Cert_TRUE /\ status # Cert_FALSE ->
         CheckResult(Status("INTERNAL", "internal error"), ch,
                     [NoSteps EXCEPT !.poison = status])
    [] status = Cert_TRUE ->
         CheckResult(Status("INVALID_ARGUMENT",
                            "precert extension in certificate chain"), ch,
                     [NoSteps EXCEPT !.poison = status])
    [] OTHER -> CheckIssuerChain(store, ch, [NoSteps EXCEPT !.poison = status])

\* CertChecker::CheckCertChain
CheckCertChain(store, ch) ==
  IF ch.kind = "null" \/ ~Chain_IsLoaded(ch)
    THEN CheckResult(Status("INVALID_ARGUMENT", "invalid certificate chain"),
                     ch, NoSteps)
  ELSE PoisonStep(store, ch, HasCriticalExtension(LeafCert(ch)))

\* The value CheckPreCertChain returns, with the two output strings as the
\* call leaves them.
PreCertResult(st, ch, steps, kh, tbs_out) ==
  [status |-> st, chain |-> ch, steps |-> steps,
   issuer_key_hash |-> kh, tbs_certificate |-> tbs_out]

\* A hash taken from position 1 whatever the chain's shape.
IssuerKeyHashAtOne(ch, uses_pre_issuer) ==
  IF Length(ch) < 2 THEN [st |-> Cert_ERROR, hash |-> <<>>]
  ELSE SPKISha256Digest(CertAt(ch, 1))

\* CheckPreCertChain, the key-hash block: whether it succeeded, and key_hash.
IssuerKeyHash(ch, uses_pre_issuer) ==
  IF uses_pre_issuer = Cert_TRUE
    THEN IF Length(ch) < 3 THEN [st |-> Cert_ERROR, hash |-> <<>>]
         ELSE SPKISha256Digest(CertAt(ch, 2))
  ELSE IF Length(ch) < 2 THEN [st |-> Cert_ERROR, hash |-> <<>>]
  ELSE SPKISha256Digest(CertAt(ch, 1))

\* A TBS block that never rewrites the issuer.
KeepIssuer(ch, del, uses_pre_issuer) == del

\* CheckPreCertChain, the issuer rewrite of the detached TBS.
ReplaceIssuer(ch, del, uses_pre_issuer) ==
  IF del.st # Cert_TRUE THEN del
  ELSE IF uses_pre_issuer = Cert_TRUE
    THEN CopyIssuerFrom(del.tbs, PrecertIssuingCert(ch))
  ELSE del

\* CheckPreCertChain, the TBS block: the detached copy of the pre-certificate
\* with the poison extension deleted and the issuer replaced.
CanonicalTbs(ch, uses_pre_issuer) ==
  ReplaceIssuer(ch, DeleteExtension(TbsCertificate(PreCert(ch))), uses_pre_issuer)

\* A last block that assigns the key hash before the encoding is tested.
EncodeStepHashFirst(ch, steps, key_hash, der, kh, tbs_out) ==
  IF der.st # Cert_TRUE
    THEN PreCertResult(Status("INTERNAL", "could not DER-encode tbs certificate"),
                       ch, steps, key_hash.hash, tbs_out)
  ELSE PreCertResult(Status_OK, ch, steps, key_hash.hash, der.der)

\* CheckPreCertChain from the DER encoding on.
EncodeStep(ch, steps, key_hash, der, kh, tbs_out) ==
  IF der.st # Cert_TRUE
    THEN PreCertResult(Status("INTERNAL", "could not DER-encode tbs certificate"),
                       ch, steps, kh, tbs_out)
  ELSE PreCertResult(Status_OK, ch, steps, key_hash.hash, der.der)

\* CheckPreCertChain from the key hash and the rewritten TBS on.
OutputStep(ch, steps, key_hash, tbs, kh, tbs_out) ==
  IF key_hash.st # Cert_TRUE \/ tbs.st # Cert_TRUE
    THEN PreCertResult(Status("INTERNAL", "internal error"), ch, steps, kh, tbs_out)
  ELSE EncodeStep(ch, steps, key_hash, DerEncoding(tbs.tbs), kh, tbs_out)

\* CheckPreCertChain from UsesPrecertSigningCertificate on.
PreIssuerStep(ch, steps, uses_pre_issuer, kh, tbs_out) ==
  IF uses_pre_issuer # Cert_TRUE /\ uses_pre_issuer # Cert_FALSE
    THEN PreCertResult(Status("INTERNAL", "internal error"), ch,
                       [steps EXCEPT !.usesPre = uses_pre_issuer], kh, tbs_out)
  ELSE OutputStep(ch, [steps EXCEPT !.usesPre = uses_pre_issuer],
                  IssuerKeyHash(ch, uses_pre_issuer),
                  CanonicalTbs(ch, uses_pre_issuer), kh, tbs_out)

\* CheckPreCertChain from the result of CheckIssuerChain on.
IssuerChainStep(ic, kh, tbs_out) ==
  IF ic.status.code # "OK"
    THEN PreCertResult(ic.status, ic.chain, ic.steps, kh, tbs_out)
  ELSE PreIssuerStep(ic.chain, ic.steps,
                     UsesPrecertSigningCertificate(ic.chain), kh, tbs_out)

\* CheckPreCertChain from the well-formedness status on.
WellFormedStep(store, ch, status, kh, tbs_out) ==
  CASE status = Cert_FALSE ->
         PreCertResult(Status("INVALID_ARGUMENT", "prechain not well formed"),
                       ch, [NoSteps EXCEPT !.wellFormed = status], kh, tbs_out)
    [] status # Cert_TRUE ->
         PreCertResult(Status("INTERNAL", "internal error"),
                       ch, [NoSteps EXCEPT !.wellFormed = status], kh, tbs_out)
    [] OTHER ->
         IssuerChainStep(
           CheckIssuerChain(store, ch, [NoSteps EXCEPT !.wellFormed = status]),
           kh, tbs_out)

\* CertChecker::CheckPreCertChain: kh and tbs_out are the output strings as
\* the caller passes them.
CheckPreCertChain(store, ch, kh, tbs_out) ==
  IF ch.kind = "null" \/ ~Chain_IsLoaded(ch)
    THEN PreCertResult(Status("INVALID_ARGUMENT", "invalid certificate chain"),
                       ch, NoSteps, kh, tbs_out)
  ELSE WellFormedStep(store, ch, IsWellFormed(ch), kh, tbs_out)

\* ------------------------------------------------------ trust-store loading
\* One block of a PEM source as PEM_read_bio_X509 meets it: a certificate, or
\* a block that fails to decode (an error other than PEM_R_NO_START_LINE).
\* The end of the sequence is the clean end of input.
BadBlock == [kind |-> "bad", cert |-> ""]
CertBlock(c) == [kind |-> "cert", cert |-> c]

\* A read loop that stages every certificate it parses, trusted already or
\* not.
RECURSIVE ReadLoopStagingAll(_, _, _, _, _)
ReadLoopStagingAll(store, src, i, certs_to_add, cert_count) ==
  IF i > Len(src)
    THEN [error |-> FALSE, certs_to_add |-> certs_to_add, cert_count |-> cert_count]
  ELSE IF src[i].kind # "cert"
    THEN [error |-> TRUE, certs_to_add |-> certs_to_add, cert_count |-> cert_count]
  ELSE
    LET is_trusted == IsTrusted(store, src[i].cert) IN
    IF is_trusted.res # "OK" /\ is_trusted.res # "ROOT_NOT_IN_LOCAL_STORE"
      THEN [error |-> TRUE, certs_to_add |-> certs_to_add,
            cert_count |-> cert_count]
    ELSE ReadLoopStagingAll(store, src, i + 1,
                            Append(certs_to_add,
                                   [name |-> is_trusted.name, cert |-> src[i].cert]),
                            cert_count + 1)

\* The read loop of LoadTrustedCertificatesFromBIO from block i on: whether
\* it ended in error, the certificates staged (certs_to_add) and cert_count.
RECURSIVE ReadLoop(_, _, _, _, _)
ReadLoop(store, src, i, certs_to_add, cert_count) ==
  IF i > Len(src)
    THEN [error |-> FALSE, certs_to_add |-> certs_to_add, cert_count |-> cert_count]
  ELSE IF src[i].kind # "cert"
    THEN [error |-> TRUE, certs_to_add |-> certs_to_add, cert_count |-> cert_count]
  ELSE
    LET is_trusted == IsTrusted(store, src[i].cert) IN
    IF is_trusted.res # "OK" /\ is_trusted.res # "ROOT_NOT_IN_LOCAL_STORE"
      THEN [error |-> TRUE, certs_to_add |-> certs_to_add,
            cert_count |-> cert_count]
    ELSE ReadLoop(store, src, i + 1,
                  IF is_trusted.res # "OK"
                  THEN Append(certs_to_add,
                              [name |-> is_trusted.name, cert |-> src[i].cert])
                  ELSE certs_to_add,
                  cert_count + 1)

\* An insertion loop that takes certs_to_add from its front.
RECURSIVE InsertAllFromFront(_, _)
InsertAllFromFront(store, certs_to_add) ==
  IF certs_to_add = <<>> THEN store
  ELSE InsertAllFromFront(Append(store, certs_to_add[1]),
                          SubSeq(certs_to_add, 2, Len(certs_to_add)))

\* The insertion loop: certs_to_add is emptied from its back.
RECURSIVE InsertAll(_, _)
InsertAll(store, certs_to_add) ==
  IF certs_to_add = <<>> THEN store
  ELSE InsertAll(Append(store, certs_to_add[Len(certs_to_add)]),
                 SubSeq(certs_to_add, 1, Len(certs_to_add) - 1))

\* A loader that inserts what it staged before a failure.
LoadKeepingStaged(store, src) ==
  LET r == ReadLoop(store, src, 1, <<>>, 0) IN
  IF r.cert_count = 0 THEN [ok |-> FALSE, store |-> store]
  ELSE [ok |-> ~r.error, store |-> InsertAll(store, r.certs_to_add)]

\* A loader without the cert_count test.
LoadAcceptingEmpty(store, src) ==
  LET r == ReadLoop(store, src, 1, <<>>, 0) IN
  IF r.error THEN [ok |-> FALSE, store |-> store]
  ELSE [ok |-> TRUE, store |-> InsertAll(store, r.certs_to_add)]

\* CertChecker::LoadTrustedCertificatesFromBIO: the return value and the
\* trust store after the call.
LoadTrustedCertificatesFromBIO(store, src) ==
  LET r == ReadLoop(store, src, 1, <<>>, 0) IN
  IF r.error \/ r.cert_count = 0 THEN [ok |-> FALSE, store |-> store]
  ELSE [ok |-> TRUE, store |-> InsertAll(store, r.certs_to_add)]

\* CertChecker::ClearAllTrustedCertificates
ClearAllTrustedCertificates(store) == <<>>

\* LoadTrustedCertificatesFromBIO taken step by step.
\* Up to its insertion loop: whether the call goes on, the store, and the
\* certificates staged in the local certs_to_add.
StageCertificates(store, src) ==
  LET r == ReadLoop(store, src, 1, <<>>, 0) IN
  IF r.error \/ r.cert_count = 0
    THEN [ok |-> FALSE, store |-> store, certs_to_add |-> <<>>]
  ELSE [ok |-> TRUE, store |-> store, certs_to_add |-> r.certs_to_add]

\* An insertion loop that leaves the last staged certificate out.
InsertionDoneEarly(certs_to_add) == Len(certs_to_add) <= 1

\* The test of the insertion loop: certs_to_add.empty().
InsertionDone(certs_to_add) == certs_to_add = <<>>

\* One turn of the insertion loop: the back of certs_to_add goes into the
\* store.
InsertBack(store, certs_to_add) ==
  [store |-> Append(store, certs_to_add[Len(certs_to_add)]),
   certs_to_add |-> SubSeq(certs_to_add, 1, Len(certs_to_add) - 1)]
\* ------------------------------------------------------ Database (database.h)
\* Database::WriteResult
WriteResults ==
  {"OK", "MISSING_CERTIFICATE_HASH", "DUPLICATE_CERTIFICATE_HASH",
   "ENTRY_NOT_FOUND", "SEQUENCE_NUMBER_ALREADY_IN_USE",
   "DUPLICATE_TREE_HEAD_TIMESTAMP", "MISSING_TREE_HEAD_TIMESTAMP"}

\* A Logged entry: its hash ("" when it has none) and its sequence number.
Logged(hash, has_sequence_number, sequence_number) ==
  [hash |-> hash, has_sequence_number |-> has_sequence_number,
   sequence_number |-> sequence_number]

\* A ct::SignedTreeHead: timestamp, tree size and root hash.
SignedTreeHead(has_timestamp, timestamp, tree_size, sha256_root_hash) ==
  [has_timestamp |-> has_timestamp, timestamp |-> timestamp,
   tree_size |-> tree_size, sha256_root_hash |-> sha256_root_hash]

\* The storage engine's state: the entry stored at each sequence number in
\* use, and the tree heads stored.
EmptyDb == [entries |-> <<>>, sths |-> {}]
SeqInUse(db, n) == \E i \in 1..Len(db.entries) : db.entries[i].sequence_number = n
EntryAt(db, n) ==
  (CHOOSE e \in {db.entries[i] : i \in 1..Len(db.entries)} : e.sequence_number = n)

\* An engine that keeps hashes unique: it refuses a hash it already stores.
CreateSequencedEntryUniqueHash_(db, logged) ==
  CASE logged.hash = "" -> [result |-> "MISSING_CERTIFICATE_HASH", db |-> db]
    [] \E i \in 1..Len(db.entries) : db.entries[i].hash = logged.hash ->
         [result |-> "DUPLICATE_CERTIFICATE_HASH", db |-> db]
    [] SeqInUse(db, logged.sequence_number) ->
         [result |-> "SEQUENCE_NUMBER_ALREADY_IN_USE", db |-> db]
    [] OTHER ->
         [result |-> "OK",
          db |-> [db EXCEPT !.entries = Append(db.entries, logged)]]

\* Database::CreateSequencedEntry_ of a storage engine: the result and the
\* state it leaves.
CreateSequencedEntry_(db, logged) ==
  CASE logged.hash = "" -> [result |-> "MISSING_CERTIFICATE_HASH", db |-> db]
    [] SeqInUse(db, logged.sequence_number)
         /\ EntryAt(db, logged.sequence_number).hash = logged.hash ->
         [result |-> "DUPLICATE_CERTIFICATE_HASH", db |-> db]
    [] SeqInUse(db, logged.sequence_number) ->
         [result |-> "SEQUENCE_NUMBER_ALREADY_IN_USE", db |-> db]
    [] OTHER ->
         [result |-> "OK",
          db |-> [db EXCEPT !.entries = Append(db.entries, logged)]]

\* An engine that compares whole tree heads instead of timestamps.
WriteTreeHeadByContent_(db, sth) ==
  IF sth \in db.sths
    THEN [result |-> "DUPLICATE_TREE_HEAD_TIMESTAMP", db |-> db]
  ELSE [result |-> "OK", db |-> [db EXCEPT !.sths = db.sths \cup {sth}]]

\* Database::WriteTreeHead_ of a storage engine: the result and the state it
\* leaves.
WriteTreeHead_(db, sth) ==
  IF \E h \in db.sths : h.timestamp = sth.timestamp
    THEN [result |-> "DUPLICATE_TREE_HEAD_TIMESTAMP", db |-> db]
  ELSE [result |-> "OK", db |-> [db EXCEPT !.sths = db.sths \cup {sth}]]

\* A call that ended the process (a failed CHECK).
Aborted(db) == [fatal |-> TRUE, result |-> "", db |-> db, engine |-> FALSE]
\* A call that returned what the storage engine returned.
Completed(r) ==
  [fatal |-> FALSE, result |-> r.result, db |-> r.db, engine |-> TRUE]
\* A call that returned before the storage engine was invoked.
Refused(result, db) ==
  [fatal |-> FALSE, result |-> result, db |-> db, engine |-> FALSE]

\* A wrapper that demands a sequence number above zero.
CreateSequencedEntryAboveZero(db, logged) ==
  IF ~logged.has_sequence_number THEN Aborted(db)
  ELSE IF ~(logged.sequence_number > 0) THEN Aborted(db)
  ELSE Completed(CreateSequencedEntry_(db, logged))

\* Database::CreateSequencedEntry
CreateSequencedEntry(db, logged) ==
  IF ~logged.has_sequence_number THEN Aborted(db)
  ELSE IF ~(logged.sequence_number >= 0) THEN Aborted(db)
  ELSE Completed(CreateSequencedEntry_(db, logged))

\* A wrapper that hands every tree head to the engine.
WriteTreeHeadUnchecked(db, sth) == Completed(WriteTreeHead_(db, sth))

\* Database::WriteTreeHead
WriteTreeHead(db, sth) ==
  IF ~sth.has_timestamp THEN Refused("MISSING_TREE_HEAD_TIMESTAMP", db)
  ELSE Completed(WriteTreeHead_(db, sth))

\* ReadOnlyDatabase::LatestTreeHead: the stored tree heads with the greatest
\* timestamp (none: NOT_FOUND).
LatestTreeHead(db) ==
  {h \in db.sths : \A g \in db.sths : g.timestamp <= h.timestamp}

\* DatabaseNotifierHelper: callbacks_ is a std::set of callback pointers.
\* ~DatabaseNotifierHelper: the registry must be empty.
NotifierDestroyed(callbacks) == [fatal |-> callbacks # {}]

\* The address of a callback object: the key callbacks_ orders its elements
\* by.
Address(cb) == CASE cb = "cb1" -> 1 [] cb = "cb2" -> 2

\* A registry iterated from its greatest address down.
RECURSIVE SetOrderDescending(_)
SetOrderDescending(callbacks) ==
  IF callbacks = {} THEN <<>>
  ELSE LET first == CHOOSE cb \in callbacks :
                      \A other \in callbacks : Address(cb) >= Address(other)
       IN <<first>> \o SetOrderDescending(callbacks \ {first})

\* The order in which callbacks_ (a std::set) is iterated: ascending address.
RECURSIVE SetOrder(_)
SetOrder(callbacks) ==
  IF callbacks = {} THEN <<>>
  ELSE LET first == CHOOSE cb \in callbacks :
                      \A other \in callbacks : Address(cb) <= Address(other)
       IN <<first>> \o SetOrder(callbacks \ {first})

\* One invocation of a callback with a tree head.
Invocation(cb, sth) == [cb |-> cb, sth |-> sth]

\* The invocations a traversal of the callbacks in `order` makes.
InvokeEach(order, sth) == [i \in 1..Len(order) |-> Invocation(order[i], sth)]

\* DatabaseNotifierHelper::Call: the invocations it makes, in order.
NotifierCall(callbacks, sth) == InvokeEach(SetOrder(callbacks), sth)

\* DatabaseNotifierHelper::Add and ::Remove
NotifierAdd(callbacks, cb) == callbacks \cup {cb}
NotifierRemove(callbacks, cb) == callbacks \ {cb}

\* An engine's AddNotifySTHCallback that calls the whole registry with the
\* current tree head.
AddNotifySTHCallbackCallingAll(db, callbacks, cb) ==
  [callbacks |-> NotifierAdd(callbacks, cb),
   calls |-> IF LatestTreeHead(db) = {} THEN <<>>
             ELSE NotifierCall(NotifierAdd(callbacks, cb),
                               CHOOSE h \in LatestTreeHead(db) : TRUE)]

\* ReadOnlyDatabase::AddNotifySTHCallback of a storage engine: the registry
\* after the call and the invocations made before it returns.
AddNotifySTHCallback(db, callbacks, cb) ==
  [callbacks |-> NotifierAdd(callbacks, cb),
   calls |-> IF LatestTreeHead(db) = {} THEN <<>>
             ELSE <<Invocation(cb, CHOOSE h \in LatestTreeHead(db) : TRUE)>>]

\* The invocations an engine makes when a write call ended as r: a tree head
\* it stored is announced to the registry.
Announced(r, callbacks, sth) ==
  IF r.engine /\ r.result = "OK" THEN NotifierCall(callbacks, sth) ELSE <<>>

\* ------------------------------------------------------------------ inputs
\* All sequences over S of length at most n.
SeqsUpTo(S, n) == UNION {[1..k -> S] : k \in 0..n}

\* The certificates Load accepts into the store, as store entries.
Entry(c) == [name |-> DerEncodedSubjectName(c).name, cert |-> c]
TrustableCerts == {c \in SourceCerts : DerEncodedSubjectName(c).st = Cert_TRUE}

\* The trust stores of at most MaxTrusted entries.  Each is the store some
\* sequence of Load calls leaves (one Load of the reversed sequence does).
Stores == SeqsUpTo({Entry(c) : c \in TrustableCerts}, MaxTrusted)

\* The PEM sources of at most MaxSrc blocks.
Sources == SeqsUpTo({CertBlock(c) : c \in SourceCerts} \cup {BadBlock}, MaxSrc)

\* The chain objects handed to the validator.
Chains ==
  {NullChain, UnloadedChain}
    \cup {LoadedChain(cs) : cs \in SeqsUpTo(ChainCerts, MaxChain) \ {<<>>}}

\* The certificates held by a store.
StoreCerts(store) == {store[i].cert : i \in 1..Len(store)}

\* Block b of a source is a certificate that parses and has a subject name.
GoodBlock(b) == b.kind = "cert" /\ b.cert \in TrustableCerts

\* What a source holds, relative to the store it is loaded into:
\*   len         the number of its blocks
\*   allDup      it is not empty and each block is a certificate of the store
\*   newThenBad  a block that cannot be loaded follows good blocks only, one
\*               of them a certificate the store does not hold
\*   fresh       the certificates of its good blocks that the store lacks,
\*               when all its blocks are good
ShapeOf(store, s) ==
  [len |-> Len(s),
   allDup |-> s # <<>> /\ \A i \in 1..Len(s) :
                 s[i].kind = "cert" /\ s[i].cert \in StoreCerts(store),
   newThenBad |-> \E j \in 1..Len(s) :
                    /\ ~GoodBlock(s[j])
                    /\ \A i \in 1..(j - 1) : GoodBlock(s[i])
                    /\ \E i \in 1..(j - 1) : s[i].cert \notin StoreCerts(store),
   fresh |-> IF \A i \in 1..Len(s) : GoodBlock(s[i])
             THEN {s[i].cert : i \in 1..Len(s)} \ StoreCerts(store)
             ELSE {}]
NoShape == ShapeOf(<<>>, <<>>)

\* The certificates of a source that the store lacks, in the order of the
\* source.
NewInSource(store, s) ==
  LET new == SelectSeq(s, LAMBDA b : GoodBlock(b) /\ b.cert \notin StoreCerts(store))
  IN [i \in 1..Len(new) |-> new[i].cert]

\* The entries passed to CreateSequencedEntry.
LoggedInputs ==
  {Logged(h, TRUE, n) : h \in {"", "h1", "h2"}, n \in -1..MaxSeq}
    \cup {Logged(h, FALSE, 0) : h \in {"", "h1", "h2"}}

\* The tree heads passed to WriteTreeHead.
SthInputs ==
  {SignedTreeHead(TRUE, t, c[1], c[2]) :
     t \in 1..MaxTime, c \in {<<0, "root0">>, <<1, "root1">>}}
    \cup {SignedTreeHead(FALSE, 0, c[1], c[2]) :
            c \in {<<0, "root0">>, <<1, "root1">>}}

\* The callbacks a client may register, by address.
Callbacks == {"cb1", "cb2"}

\* No Load call has been taken step by step.
NoCall == [pc |-> "idle", certs_to_add |-> <<>>, store0 |-> <<>>, new |-> <<>>]

\* An output string no call has written to.
Unset == <<>>

\* What the caller's output strings hold when the validator is handed them:
\* the outputs of an earlier call for another pre-certificate.  The call never
\* reads them.
CallerStrings ==
  [issuer_key_hash |-> <<"SHA256", <<"SPKI", "k0">>>>,
   tbs_certificate |-> <<"DER", [loaded |-> TRUE, of |-> "P0", subject |-> "L0",
                                 issuer |-> "R", key |-> "kL0", poison |-> FALSE]>>]

\* ------------------------------------------------------------------- state
VARIABLES
  trusted,          \* CertChecker::trusted_
  chain,            \* the chain object under validation
  chain0,           \* the chain as it was passed to the last validation call
  op,               \* the last operation
  status,           \* the util::Status the last validation call returned
  steps,            \* the steps the last validation call went through
  issuer_key_hash,  \* CheckPreCertChain's output string
  tbs_certificate,  \* CheckPreCertChain's output string
  anchored,         \* the chain ended at a self-signed trust-store entry
  srcShape,         \* what the source of the last Load held (history)
  loadOk,           \* the value the last Load returned (history)
  batch,            \* the new certificates of the last Load that returned
                    \* true, in the order of its source (history)
  call,             \* the Load call taken step by step: where it is, its
                    \* certs_to_add, and (history) the store it started
                    \* from and the new certificates of its source
  db,               \* the storage engine's entries and tree heads
  callbacks,        \* DatabaseNotifierHelper::callbacks_
  proc,             \* "running", "aborted" (a failed CHECK) or "exited"
  dbArg,            \* the argument of the last database call
  dbResult,         \* the WriteResult the last database call returned
  engineCalled,     \* whether the last write call invoked the storage engine
  calls,            \* the callback invocations the last database call made
  registered        \* the registered callbacks in registration order (history)

checkerVars ==
  <<trusted, chain, chain0, status, steps, issuer_key_hash,
    tbs_certificate, anchored, srcShape, loadOk, batch, call>>

dbVars ==
  <<db, callbacks, proc, dbArg, dbResult, engineCalled, calls, registered>>

vars == <<checkerVars, op, dbVars>>

validatorVars ==
  <<chain, chain0, status, steps, issuer_key_hash, tbs_certificate, anchored>>

InitCommon ==
  /\ chain = NoChain
  /\ chain0 = NoChain
  /\ op = "init"
  /\ status = Status_OK
  /\ steps = NoSteps
  /\ anchored = FALSE
  /\ srcShape = NoShape
  /\ loadOk = FALSE
  /\ batch = <<>>
  /\ call = NoCall
  /\ db = EmptyDb
  /\ callbacks = {}
  /\ proc = "running"
  /\ dbArg = <<>>
  /\ dbResult = ""
  /\ engineCalled = FALSE
  /\ calls = <<>>
  /\ registered = <<>>

\* The validator over a provisioned trust store.
Init ==
  /\ trusted \in Stores
  /\ issuer_key_hash = CallerStrings.issuer_key_hash
  /\ tbs_certificate = CallerStrings.tbs_certificate
  /\ InitCommon

\* The trust store from construction on.
InitStore ==
  /\ trusted = <<>>
  /\ issuer_key_hash = Unset
  /\ tbs_certificate = Unset
  /\ InitCommon

\* ----------------------------------------------------------------- actions
\* A chain object is constructed from a submission.  What is remembered of
\* the last Load's source and result is dropped: provisioning is over.
Submit(c) ==
  /\ chain' = c
  /\ op' = "Submit"
  /\ srcShape' = NoShape
  /\ loadOk' = FALSE
  /\ call' = NoCall
  /\ UNCHANGED <<trusted, chain0, status, steps, issuer_key_hash,
                 tbs_certificate, anchored, batch, dbVars>>

\* The last certificate of the chain is self-signed and is a store entry.
EndsAtTrustedRoot(store, ch) ==
  /\ ch.certs # <<>>
  /\ IsSelfSigned(LastCert(ch)) = Cert_TRUE
  /\ \E i \in 1..Len(store) : store[i].cert = LastCert(ch)

\* The caller's view of a validation call that returned r.
Returned(r) ==
  /\ chain' = r.chain
  /\ status' = r.status
  /\ steps' = r.steps
  /\ anchored' = (anchored \/ (r.steps.anchor = "OK"
                                 /\ EndsAtTrustedRoot(trusted, r.chain)))
  /\ chain0' = chain

\* checker.CheckCertChain(&chain)
DoCheckCertChain ==
  /\ chain # NoChain
  /\ Returned(CheckCertChain(trusted, chain))
  /\ op' = "CheckCertChain"
  /\ UNCHANGED <<trusted, issuer_key_hash, tbs_certificate, srcShape, loadOk,
                 batch, call, dbVars>>

\* The output strings after a CheckPreCertChain call that returned r.
Outputs(r) ==
  /\ issuer_key_hash' = r.issuer_key_hash
  /\ tbs_certificate' = r.tbs_certificate
  /\ Returned(r)

\* checker.CheckPreCertChain(&chain, &issuer_key_hash, &tbs_certificate)
DoCheckPreCertChain ==
  /\ chain # NoChain
  /\ Outputs(CheckPreCertChain(trusted, chain, issuer_key_hash, tbs_certificate))
  /\ op' = "CheckPreCertChain"
  /\ UNCHANGED <<trusted, srcShape, loadOk, batch, call, dbVars>>

\* The trust store after a Load call that returned r.
Loaded(r) ==
  /\ Len(r.store) <= MaxTrusted
  /\ trusted' = r.store
  /\ loadOk' = r.ok

\* checker.LoadTrustedCertificates(source)
Load(s) ==
  /\ Loaded(LoadTrustedCertificatesFromBIO(trusted, s))
  /\ srcShape' = ShapeOf(trusted, s)
  /\ batch' = IF LoadTrustedCertificatesFromBIO(trusted, s).ok
              THEN NewInSource(trusted, s) ELSE <<>>
  /\ op' = "Load"
  /\ UNCHANGED <<validatorVars, call, dbVars>>

\* checker.ClearAllTrustedCertificates()
Clear ==
  /\ trusted' = ClearAllTrustedCertificates(trusted)
  /\ batch' = <<>>
  /\ op' = "Clear"
  /\ UNCHANGED <<validatorVars, srcShape, loadOk, call, dbVars>>

Next ==
  \/ chain = NoChain /\ \E c \in Chains : Submit(c)
  \/ DoCheckCertChain
  \/ DoCheckPreCertChain
  \/ Clear

Spec == Init /\ [][Next]_vars

NextStore ==
  \/ \E s \in Sources : Load(s)
  \/ Clear

SpecStore == InitStore /\ [][NextStore]_vars

NextAnchor ==
  \/ chain = NoChain /\ \E s \in Sources : Load(s)
  \/ chain = NoChain /\ \E c \in Chains : Submit(c)
  \/ DoCheckCertChain

\* A trust store is provisioned, then a chain is validated against it.
SpecAnchor == InitStore /\ [][NextAnchor]_vars

\* The Load call after its read loop gave r: it returns false, or goes on to
\* its insertion loop.
Staged(r, s) ==
  /\ Len(r.store) + Len(r.certs_to_add) <= MaxTrusted
  /\ trusted' = r.store
  /\ call' = [pc |-> IF r.ok THEN "insert" ELSE "returned",
              certs_to_add |-> r.certs_to_add,
              store0 |-> trusted, new |-> NewInSource(trusted, s)]
  /\ op' = IF r.ok THEN "LoadBegin" ELSE "Load"

\* checker.LoadTrustedCertificates(source) is called and runs up to its
\* insertion loop.
BeginLoad(s) ==
  /\ call.pc # "insert"
  /\ Staged(StageCertificates(trusted, s), s)
  /\ loadOk' = FALSE
  /\ UNCHANGED <<validatorVars, srcShape, batch, dbVars>>

\* The store and certs_to_add after one turn of the insertion loop gave r.
Inserted(r) ==
  /\ trusted' = r.store
  /\ call' = [call EXCEPT !.certs_to_add = r.certs_to_add]

\* One turn of the insertion loop of the call in progress.
InsertStep ==
  /\ call.pc = "insert"
  /\ ~InsertionDone(call.certs_to_add)
  /\ Inserted(InsertBack(trusted, call.certs_to_add))
  /\ op' = "LoadInsert"
  /\ UNCHANGED <<validatorVars, srcShape, loadOk, batch, dbVars>>

\* The insertion loop is over: the call returns true.
EndLoad ==
  /\ call.pc = "insert"
  /\ InsertionDone(call.certs_to_add)
  /\ call' = [call EXCEPT !.pc = "returned"]
  /\ loadOk' = TRUE
  /\ op' = "Load"
  /\ UNCHANGED <<trusted, validatorVars, srcShape, batch, dbVars>>

\* No Load call is in progress: the store can be read.
Readable == call.pc # "insert"

NextLoadSteps ==
  \/ chain = NoChain /\ \E s \in Sources : BeginLoad(s)
  \/ InsertStep
  \/ EndLoad
  \/ Readable /\ chain = NoChain /\ \E c \in Chains : Submit(c)
  \/ Readable /\ DoCheckCertChain

\* Load calls taken one step of the insertion loop at a time, and the
\* validations that read the store between calls.
SpecLoadSteps == InitStore /\ [][NextLoadSteps]_vars

\* -------------------------------------------------------- database actions
\* The process after a database call that gave r.
DbReturned(r) ==
  /\ proc' = IF r.fatal THEN "aborted" ELSE "running"
  /\ dbResult' = r.result
  /\ db' = r.db
  /\ engineCalled' = r.engine

\* database.CreateSequencedEntry(logged)
DoCreateSequencedEntry(logged) ==
  /\ DbReturned(CreateSequencedEntry(db, logged))
  /\ dbArg' = logged
  /\ op' = "CreateSequencedEntry"
  /\ calls' = <<>>
  /\ UNCHANGED <<checkerVars, callbacks, registered>>

\* database.WriteTreeHead(sth)
DoWriteTreeHead(sth) ==
  /\ DbReturned(WriteTreeHead(db, sth))
  /\ calls' = Announced(WriteTreeHead(db, sth), callbacks, sth)
  /\ dbArg' = sth
  /\ op' = "WriteTreeHead"
  /\ UNCHANGED <<checkerVars, callbacks, registered>>

\* The registry and the invocations after AddNotifySTHCallback gave r.
Added(r) ==
  /\ callbacks' = r.callbacks
  /\ calls' = r.calls

\* database.AddNotifySTHCallback(&cb), for a callback not registered
DoAddNotifySTHCallback(cb) ==
  /\ cb \notin callbacks
  /\ Added(AddNotifySTHCallback(db, callbacks, cb))
  /\ registered' = Append(registered, cb)
  /\ dbArg' = cb
  /\ op' = "AddNotifySTHCallback"
  /\ UNCHANGED <<checkerVars, db, proc, dbResult, engineCalled>>

\* database.RemoveNotifySTHCallback(&cb), for a registered callback
DoRemoveNotifySTHCallback(cb) ==
  /\ cb \in callbacks
  /\ callbacks' = NotifierRemove(callbacks, cb)
  /\ registered' = SelectSeq(registered, LAMBDA c : c # cb)
  /\ calls' = <<>>
  /\ dbArg' = cb
  /\ op' = "RemoveNotifySTHCallback"
  /\ UNCHANGED <<checkerVars, db, proc, dbResult, engineCalled>>

\* The database instance, and its notifier helper, are destroyed.
Destroy ==
  /\ proc' = IF NotifierDestroyed(callbacks).fatal THEN "aborted" ELSE "exited"
  /\ op' = "Destroy"
  /\ calls' = <<>>
  /\ UNCHANGED <<checkerVars, db, callbacks, dbArg, dbResult, engineCalled,
                 registered>>

NextDb ==
  \/ proc = "running" /\ \E logged \in LoggedInputs : DoCreateSequencedEntry(logged)
  \/ proc = "running" /\ \E sth \in SthInputs : DoWriteTreeHead(sth)
  \/ proc = "running" /\ \E cb \in Callbacks : DoAddNotifySTHCallback(cb)
  \/ proc = "running" /\ \E cb \in Callbacks : DoRemoveNotifySTHCallback(cb)
  \/ proc = "running" /\ Destroy

\* The database from construction on.
SpecDb == InitStore /\ [][NextDb]_vars

\* ------------------------------------------------------------ trust store
\* C1: a Load call that returns false leaves the trust store holding exactly
\* the entries it held before the call, whatever made it fail (a certificate
\* that does not classify, a block that does not decode, no certificate at
\* all); certificates that preceded the failing block are not inserted.
C1_LoadAllOrNothing ==
  [][(op' = "Load" /\ loadOk' = FALSE) => trusted' = trusted]_vars

\* A failed Load into a non-empty store of a source in which a certificate
\* new to the store precedes the block that cannot be loaded.
C1_Witness ==
  op = "Load" /\ loadOk = FALSE /\ srcShape.newThenBad /\ trusted # <<>>

\* C8 as stated: loading an empty source into a store that earlier loads
\* filled leaves the store unchanged and reports success.
C8_EmptySourceSucceeds ==
  [][(op' = "Load" /\ srcShape'.len = 0 /\ trusted # <<>>)
       => (trusted' = trusted /\ loadOk' = TRUE)]_vars

\* C8, amended: loading an empty source leaves the trust store unchanged and
\* reports failure (no certificate was parsed).
C8_EmptySourceRejected ==
  [][(op' = "Load" /\ srcShape'.len = 0)
       => (trusted' = trusted /\ loadOk' = FALSE)]_vars

\* An empty source was loaded into a store that earlier loads filled.
C8_Witness ==
  op = "Load" /\ srcShape.len = 0 /\ trusted # <<>> /\ loadOk = FALSE

\* C9: loading a non-empty source all of whose certificates are already
\* entries of the store returns success and leaves the store with exactly the
\* same entries, however often it is repeated.
C9_LoadIdempotent ==
  [][(op' = "Load" /\ srcShape'.allDup)
       => (loadOk' = TRUE /\ trusted' = trusted)]_vars

\* A source of several certificates, all in the store, was loaded again.
C9_Witness ==
  op = "Load" /\ srcShape.allDup /\ srcShape.len >= 2 /\ loadOk = TRUE

\* -------------------------------------------------------------- validator
Validated == op \in {"CheckCertChain", "CheckPreCertChain"}

\* The three checks of CheckIssuerChain that precede the trust anchor all
\* succeeded in the last call.
ChecksPassed ==
  steps.trim = Cert_TRUE /\ steps.caIssuer = Cert_TRUE /\ steps.sig = Cert_TRUE

\* C2: every result of CheckCertChain and CheckPreCertChain is in one of the
\* four categories, and it is failed-precondition exactly when trimming, the
\* CA-issuer check and the signature check succeeded and GetTrustedCa gave
\* ROOT_NOT_IN_LOCAL_STORE; a chain that fails one of these checks is never
\* reported as failed-precondition.
C2_FailedPreconditionIffUnknownRoot ==
  Validated =>
    /\ status.code \in StatusCodes
    /\ (status.code = "FAILED_PRECONDITION")
         <=> (ChecksPassed /\ steps.anchor = "ROOT_NOT_IN_LOCAL_STORE")
    /\ (status.code = "FAILED_PRECONDITION") =>
         /\ Chain_IsLoaded(chain0)
         /\ RemoveCertsAfterFirstSelfSigned(chain0).st = Cert_TRUE
         /\ IsValidCaIssuerChainMaybeLegacyRoot(
              RemoveCertsAfterFirstSelfSigned(chain0).chain) = Cert_TRUE
         /\ IsValidSignatureChain(
              RemoveCertsAfterFirstSelfSigned(chain0).chain) = Cert_TRUE

\* A chain was reported failed-precondition although the store holds
\* certificates under its issuer's name: none of them signed it.
C2_Witness ==
  /\ Validated
  /\ status.code = "FAILED_PRECONDITION"
  /\ steps.verdicts # <<>>

\* C3: for a loaded chain whose leaf carries the critical poison extension
\* CheckCertChain returns invalid-argument "precert extension in certificate
\* chain" without running the issuer-chain or trust-anchor steps and without
\* touching the chain; if the extension's presence cannot be determined the
\* result is an internal error.
C3_PoisonedLeafVerdict ==
  (op = "CheckCertChain" /\ Chain_IsLoaded(chain0)) =>
    /\ HasCriticalExtension(LeafCert(chain0)) = Cert_TRUE =>
         /\ status = Status("INVALID_ARGUMENT",
                            "precert extension in certificate chain")
         /\ steps.trim = "NOT_RUN"
         /\ steps.anchor = "NOT_RUN"
         /\ chain = chain0
    /\ HasCriticalExtension(LeafCert(chain0)) \notin {Cert_TRUE, Cert_FALSE} =>
         status.code = "INTERNAL"

\* CheckCertChain ran on a chain of several certificates with a poisoned
\* leaf, over a provisioned trust store.
C3_Witness ==
  /\ op = "CheckCertChain"
  /\ Chain_IsLoaded(chain0)
  /\ Len(chain0.certs) >= 2
  /\ HasCriticalExtension(LeafCert(chain0)) = Cert_TRUE
  /\ trusted # <<>>

\* C4: an UNSUPPORTED_ALGORITHM outcome, whether of the signature-chain check
\* or of the signature test against a trust-anchor candidate, is reported as
\* invalid-argument, never as an internal error.
C4_UnsupportedIsInvalidArgument ==
  Validated =>
    /\ steps.sig = Cert_UNSUPPORTED_ALGORITHM =>
         status.code = "INVALID_ARGUMENT"
    /\ (\E i \in 1..Len(steps.verdicts) :
          steps.verdicts[i] = Cert_UNSUPPORTED_ALGORITHM) =>
         /\ steps.anchor = "UNSUPPORTED_ALGORITHM_IN_CERT_CHAIN"
         /\ status.code = "INVALID_ARGUMENT"

\* The signature test against a trust-anchor candidate met the unsupported
\* algorithm.
C4_Witness ==
  /\ Validated
  /\ \E i \in 1..Len(steps.verdicts) :
       steps.verdicts[i] = Cert_UNSUPPORTED_ALGORITHM

\* C5: for a chain that passes trimming, the CA-issuer check and the
\* signature check and whose last certificate is self-signed: if that
\* certificate is an entry of the trust store the trust anchor resolves to OK
\* with nothing appended (CheckCertChain returns OK), and if it is not (any
\* more) the result is ROOT_NOT_IN_LOCAL_STORE, failed-precondition.
C5_SelfSignedRoot ==
  (/\ Validated
   /\ ChecksPassed
   /\ IsSelfSigned(steps.trimmed[Len(steps.trimmed)]) = Cert_TRUE) =>
    /\ chain.certs = steps.trimmed
    /\ IF steps.trimmed[Len(steps.trimmed)] \in StoreCerts(trusted)
       THEN /\ steps.anchor = "OK"
            /\ op = "CheckCertChain" => status = Status_OK
            /\ status.code \in {"OK", "INTERNAL"}
       ELSE /\ steps.anchor = "ROOT_NOT_IN_LOCAL_STORE"
            /\ status.code = "FAILED_PRECONDITION"

\* A chain that validated to its self-signed trusted root is validated again
\* after that root left the store.
C5_Witness ==
  /\ Validated
  /\ anchored
  /\ chain0 = chain
  /\ ChecksPassed
  /\ IsSelfSigned(LastCert(chain)) = Cert_TRUE
  /\ status.code = "FAILED_PRECONDITION"

\* A Precertificate Signing Certificate stands above the leaf of ch.
UsesSigningCert(ch) ==
  Len(ch.certs) >= 2 /\ Cert(ch.certs[2]).eku

\* C6: when CheckPreCertChain returns OK, issuer_key_hash is the SPKI SHA-256
\* digest of the certificate two above the leaf if a Precertificate Signing
\* Certificate is used and of the one above the leaf otherwise, in the chain
\* as CheckIssuerChain left it; a chain too short for that gives an internal
\* error.
C6_IssuerKeyHash ==
  op = "CheckPreCertChain" =>
    /\ status.code = "OK" =>
         IF UsesSigningCert(chain)
         THEN /\ Len(chain.certs) >= 3
              /\ issuer_key_hash = <<"SHA256", <<"SPKI", Cert(chain.certs[3]).key>>>>
         ELSE /\ Len(chain.certs) >= 2
              /\ issuer_key_hash = <<"SHA256", <<"SPKI", Cert(chain.certs[2]).key>>>>
    /\ (/\ steps.anchor = "OK"
        /\ Len(chain.certs) < (IF UsesSigningCert(chain) THEN 3 ELSE 2)) =>
         status.code = "INTERNAL"

\* CheckPreCertChain returned OK for a chain with a signing certificate whose
\* root the validator appended.
C6_Witness ==
  /\ op = "CheckPreCertChain"
  /\ status.code = "OK"
  /\ UsesSigningCert(chain)
  /\ Len(chain0.certs) = 2
  /\ Len(chain.certs) = 3

\* C7: when CheckPreCertChain returns OK, tbs_certificate is the DER encoding
\* of the pre-certificate's TBS without the poison extension, its issuer
\* taken from the certificate that will sign the final certificate exactly
\* when a Precertificate Signing Certificate is used; the pre-certificate in
\* the chain is left as submitted.
C7_CanonicalTbs ==
  (op = "CheckPreCertChain" /\ status.code = "OK") =>
    /\ tbs_certificate[1] = "DER"
    /\ tbs_certificate[2].of = chain0.certs[1]
    /\ tbs_certificate[2].subject = Cert(chain0.certs[1]).subj
    /\ tbs_certificate[2].key = Cert(chain0.certs[1]).key
    /\ tbs_certificate[2].poison = FALSE
    /\ tbs_certificate[2].issuer =
         IF UsesSigningCert(chain) THEN Cert(chain.certs[3]).subj
         ELSE Cert(chain0.certs[1]).iss
    /\ chain.certs[1] = chain0.certs[1]
    /\ Cert(chain.certs[1]).poison

\* CheckPreCertChain returned OK with the issuer of the TBS rewritten.
C7_Witness ==
  /\ op = "CheckPreCertChain"
  /\ status.code = "OK"
  /\ UsesSigningCert(chain)
  /\ tbs_certificate[2].issuer # Cert(chain0.certs[1]).iss

\* --------------------------------------------------------------- database
\* The entry passed in carries a sequence number that is not negative.
Sequenced(logged) == logged.has_sequence_number /\ logged.sequence_number >= 0

\* C10 as stated: every call of CreateSequencedEntry and of WriteTreeHead,
\* whatever it is passed, completes by returning a WriteResult.
C10_WritesNeverFatal ==
  op \in {"CreateSequencedEntry", "WriteTreeHead"} =>
    (proc = "running" /\ dbResult \in WriteResults)

\* C10, amended: every call of WriteTreeHead, and every call of
\* CreateSequencedEntry on an entry that carries a sequence number >= 0,
\* completes by returning a WriteResult; the process is ended only by a
\* CreateSequencedEntry call on an entry without such a sequence number or by
\* destroying the database while callbacks are registered.
C10_WritesReturnUnlessUnsequenced ==
  /\ (op = "WriteTreeHead" \/ (op = "CreateSequencedEntry" /\ Sequenced(dbArg)))
       => (proc = "running" /\ dbResult \in WriteResults)
  /\ proc = "aborted" =>
       \/ op = "CreateSequencedEntry" /\ ~Sequenced(dbArg)
       \/ op = "Destroy" /\ callbacks # {}

\* CreateSequencedEntry returned for an entry with sequence number 0 whose
\* number was already taken.
C10_Witness ==
  /\ op = "CreateSequencedEntry"
  /\ dbArg.sequence_number = 0
  /\ dbArg.has_sequence_number
  /\ dbResult = "SEQUENCE_NUMBER_ALREADY_IN_USE"
  /\ proc = "running"

\* The sequence numbers at which the engine stores the hash h.
IndicesOf(d, h) ==
  {d.entries[i].sequence_number : i \in {j \in 1..Len(d.entries) : d.entries[j].hash = h}}

C12_MissingTimestampRefused ==
  [][(op' = "WriteTreeHead" /\ ~dbArg'.has_timestamp) =>
       /\ dbResult' = "MISSING_TREE_HEAD_TIMESTAMP"
       /\ ~engineCalled'
       /\ db'.sths = db.sths
       /\ LatestTreeHead(db') = LatestTreeHead(db)
    ]_vars

\* A tree head without a timestamp was refused while tree heads were stored.
C12_Witness ==
  /\ op = "WriteTreeHead"
  /\ ~dbArg.has_timestamp
  /\ dbResult = "MISSING_TREE_HEAD_TIMESTAMP"
  /\ db.sths # {}

\* The stored tree heads with the timestamp t.
SthsAt(d, t) == {h \in d.sths : h.timestamp = t}

\* C13: WriteTreeHead with the timestamp of a stored tree head returns
\* DUPLICATE_TREE_HEAD_TIMESTAMP whatever its tree size and root hash, and
\* the stored tree heads stay as they were; with a timestamp not stored yet
\* it returns OK and stores the tree head, also when a later timestamp is
\* stored already; no two stored tree heads share a timestamp.
C13_TreeHeadsUniqueByTimestamp ==
  [][(op' = "WriteTreeHead" /\ dbArg'.has_timestamp) =>
       /\ SthsAt(db, dbArg'.timestamp) # {}
            => (dbResult' = "DUPLICATE_TREE_HEAD_TIMESTAMP" /\ db'.sths = db.sths)
       /\ SthsAt(db, dbArg'.timestamp) = {}
            => (dbResult' = "OK" /\ db'.sths = db.sths \cup {dbArg'})
       /\ \A h \in db'.sths : SthsAt(db', h.timestamp) = {h}
    ]_vars

\* A tree head with a stored timestamp but another tree size was refused,
\* the stored one being older than the latest.
C13_Witness ==
  /\ op = "WriteTreeHead"
  /\ dbResult = "DUPLICATE_TREE_HEAD_TIMESTAMP"
  /\ \E h \in db.sths :
       /\ h.timestamp = dbArg.timestamp
       /\ h.tree_size # dbArg.tree_size
       /\ h \notin LatestTreeHead(db)

\* C14: AddNotifySTHCallback invokes the callback it adds exactly once, with
\* the latest stored tree head, before it returns, and invokes nothing else;
\* when no tree head is stored it invokes nothing.
C14_AddCallsNewCallbackWithLatest ==
  [][op' = "AddNotifySTHCallback" =>
       IF LatestTreeHead(db) = {} THEN calls' = <<>>
       ELSE /\ Len(calls') = 1
            /\ calls'[1].cb = dbArg'
            /\ calls'[1].sth \in LatestTreeHead(db)
    ]_vars

\* A second callback was added while two tree heads were stored: it alone
\* was invoked, with the later tree head.
C14_Witness ==
  /\ op = "AddNotifySTHCallback"
  /\ Len(registered) = 2
  /\ Len(calls) = 1
  /\ calls[1].cb = dbArg
  /\ \E h \in db.sths : h.timestamp < calls[1].sth.timestamp

\* A tree head was stored, so the engine ran DatabaseNotifierHelper::Call
\* with it.
Called == op = "WriteTreeHead" /\ dbResult = "OK"

\* C18 as stated: Call(sth) invokes every callback registered at that
\* moment exactly once with sth, in registration order.
C18_CallInRegistrationOrder ==
  Called => calls = InvokeEach(registered, dbArg)

\* C18, amended: Call(sth) invokes every callback registered at that moment
\* (added and not since removed) exactly once with sth, in the order of the
\* registry's set, which is ascending callback address whatever the order of
\* registration.
C18_CallInAddressOrder ==
  Called =>
    /\ {calls[i].cb : i \in 1..Len(calls)} = {registered[i] : i \in 1..Len(registered)}
    /\ Len(calls) = Len(registered)
    /\ \A i \in 1..Len(calls) : calls[i].sth = dbArg
    /\ \A i, j \in 1..Len(calls) :
         i < j => Address(calls[i].cb) < Address(calls[j].cb)

\* Call invoked two callbacks in the order opposite to their registration.
C18_Witness ==
  /\ Called
  /\ Len(calls) = 2
  /\ registered = <<calls[2].cb, calls[1].cb>>

\* ------------------------------------------------------------ trust anchor
\* The certificates of the store in insertion order.
StoreOrder == [i \in 1..Len(trusted) |-> trusted[i].cert]

\* The store's certificates that were there before the last batch.
BeforeBatch == SubSeq(StoreOrder, 1, Len(trusted) - Len(batch))

Reverse(q) == [i \in 1..Len(q) |-> q[Len(q) + 1 - i]]

\* The last certificate of the chain GetTrustedCa was given.
ScanSubject == steps.trimmed[Len(steps.trimmed)]

\* The last validation reached the candidate loop of GetTrustedCa: the
\* checks before it succeeded, the store is not empty, and the last
\* certificate is neither a store entry nor issued under its own name.
ScanReached ==
  /\ op = "CheckCertChain"
  /\ ChecksPassed
  /\ trusted # <<>>
  /\ ScanSubject \notin StoreCerts(trusted)
  /\ DerEncodedIssuerName(ScanSubject).st = Cert_TRUE
  /\ DerEncodedSubjectName(ScanSubject).st = Cert_TRUE
  /\ DerEncodedIssuerName(ScanSubject).name # DerEncodedSubjectName(ScanSubject).name

\* The positions of `order` holding a certificate whose subject name is the
\* issuer name of the scan's subject and whose key verifies its signature.
Verifying(order) ==
  {i \in 1..Len(order) :
     /\ DerEncodedSubjectName(order[i]).name = DerEncodedIssuerName(ScanSubject).name
     /\ IsSignedBy(ScanSubject, order[i]) = Cert_TRUE}

\* The positions of `order` holding a certificate whose subject name is the
\* issuer name of the scan's subject and whose check does not answer FALSE:
\* the scan goes no further than the first of them.
Deciding(order) ==
  {i \in 1..Len(order) :
     /\ DerEncodedSubjectName(order[i]).name = DerEncodedIssuerName(ScanSubject).name
     /\ IsSignedBy(ScanSubject, order[i]) # Cert_FALSE}

\* The first position of a non-empty set of positions.
First(ps) == CHOOSE i \in ps : \A j \in ps : i <= j

\* The scan appended the first verifying certificate of `order`; it appended
\* nothing when none verifies, or when the check of an earlier candidate ended
\* the scan.
AppendedFirstOf(order) ==
  IF Verifying(order) = {} \/ First(Deciding(order)) \notin Verifying(order)
    THEN chain.certs = steps.trimmed /\ steps.anchor # "OK"
  ELSE /\ steps.anchor = "OK"
       /\ chain.certs = Append(steps.trimmed, order[First(Verifying(order))])

\* C15 as stated: the scan goes through the candidates in insertion order,
\* which for the certificates one Load added is their order in its source,
\* and appends the first whose signature verifies.
C15_FirstInSourceOrder ==
  ScanReached => AppendedFirstOf(BeforeBatch \o batch)

\* C15, amended: the scan goes through the candidates in insertion order,
\* which for the certificates one Load added is the reverse of their order
\* in its source, and appends the first whose signature verifies, of several
\* verifying candidates the earliest inserted one, unless the check of an
\* earlier candidate ended the scan.
C15_FirstInInsertionOrder ==
  ScanReached =>
    /\ StoreOrder = BeforeBatch \o Reverse(batch)
    /\ AppendedFirstOf(StoreOrder)

\* One Load added two certificates that both verify the chain's last
\* certificate, and the one appended is the second of the source.
C15_Witness ==
  /\ ScanReached
  /\ Len(batch) = 2
  /\ Verifying(batch) = {1, 2}
  /\ batch[1] # batch[2]
  /\ chain.certs = Append(steps.trimmed, batch[2])

\* The store entries the candidate loop of the last validation ranged over.
ScanRange == EqualRange(trusted, DerEncodedIssuerName(ScanSubject).name)

C17_OkChainEndsAtTrustedRoot ==
  (Validated /\ status = Status_OK) =>
    /\ LastCert(chain) \in StoreCerts(trusted)
    /\ steps.trimmed = RemoveCertsAfterFirstSelfSigned(chain0).chain.certs
    /\ \/ chain.certs = steps.trimmed
       \/ /\ chain.certs = Append(steps.trimmed, LastCert(chain))
          /\ IsSignedBy(ScanSubject, LastCert(chain)) = Cert_TRUE
          /\ DerEncodedSubjectName(LastCert(chain)).name
               = DerEncodedIssuerName(ScanSubject).name

\* CheckPreCertChain returned OK for a chain to which the root was appended.
C17_Witness ==
  /\ op = "CheckPreCertChain"
  /\ status = Status_OK
  /\ chain.certs = Append(chain0.certs, LastCert(chain))
  /\ LastCert(chain) \in StoreCerts(trusted)

\* ------------------------------------------------------------ load atomicity
\* The certificates the store holds beyond the first n entries.
AddedAfter(n) == {StoreOrder[i] : i \in (n + 1)..Len(trusted)}

C20_NoIdenticalStoreEntries ==
  \A i, j \in 1..Len(trusted) :
    (trusted[i].name = trusted[j].name /\ trusted[i].cert = trusted[j].cert)
      => i = j

\* ------------------------------------------------------ outputs on success
\* C21: a CheckPreCertChain call that returns a status other than OK, at
\* whatever step it fails, the DER encoding after the key hash was computed
\* included, leaves issuer_key_hash and tbs_certificate as they were before
\* the call; a call that returns OK sets both, the key hash from a
\* certificate above the leaf and the TBS from the leaf of the chain passed.
C21_OutputsOnlyOnSuccess ==
  [][op' = "CheckPreCertChain" =>
       IF status'.code # "OK"
       THEN /\ issuer_key_hash' = issuer_key_hash
            /\ tbs_certificate' = tbs_certificate
       ELSE /\ \E i \in 2..Len(chain'.certs) :
                 issuer_key_hash' = <<"SHA256", <<"SPKI", Cert(chain'.certs[i]).key>>>>
            /\ tbs_certificate'[1] = "DER"
            /\ tbs_certificate'[2].of = chain0'.certs[1]]_vars

\* CheckPreCertChain failed at the DER encoding, after the key hash was
\* computed, and both outputs still hold what an earlier call for another
\* pre-certificate left in them.
C21_Witness ==
  /\ op = "CheckPreCertChain"
  /\ status = Status("INTERNAL", "could not DER-encode tbs certificate")
  /\ issuer_key_hash = CallerStrings.issuer_key_hash
  /\ tbs_certificate = CallerStrings.tbs_certificate
  /\ steps.usesPre = Cert_FALSE
  /\ Len(chain.certs) = 2

====
